---- MODULE Spec2Model ----
(***************************************************************************)
(* pySim/javacard.py: the IJC splitter ijc_to_cap and the CapFile class    *)
(* (construction from a zip archive, get_loadfile, get_loadfile_aid,       *)
(* get_applet_aid).                                                        *)
(*                                                                         *)
(* Python values are modelled as follows.  bytes: a sequence of integers   *)
(* 0..255.  str: a TLA+ string.  None / a value: the empty sequence / a    *)
(* one-element sequence holding the value.  An exception: a record with    *)
(* the exception type and its message.                                     *)
(***************************************************************************)
EXTENDS Integers, Sequences, FiniteSets, TLC

VARIABLES
    in_file,      \* ijc_to_cap: the bytes in_file.read() will return
    p,            \* ijc_to_cap: the path prefix argument
    b,            \* ijc_to_cap: the local b, the part of the stream not yet split
    out_zip,      \* ijc_to_cap: the writestr calls made so far, in order
    ijc_pc,       \* ijc_to_cap: "read", "loop", "done" or "raised"
    ijc_exc,      \* ijc_to_cap: the exception that left the function, if any
    archive,      \* CapFile: the entries of the zip file, in namelist order
    pc,           \* CapFile.__init__: "start", "loop", "check", "constructed" or "raised"
    i,            \* CapFile.__init__: number of namelist entries already classified
    slots,        \* CapFile: the twelve __component_* attributes
    exc,          \* CapFile.__init__: the exception that left the constructor, if any
    ret,          \* CapFile: outcome of the latest accessor call on the object
    header,       \* get_loadfile_aid: the local header, the decoded Header component
    applet        \* get_applet_aid: the local applet, the decoded Applet component

vars == <<in_file, p, b, out_zip, ijc_pc, ijc_exc, archive, pc, i, slots, exc, ret, header, applet>>
ijcVars == <<in_file, p, b, out_zip, ijc_pc, ijc_exc>>
capVars == <<archive, pc, i, slots, exc, ret, header, applet>>
locals == <<header, applet>>

(***************************************************************************)
(* Bounds of the explored inputs.                                          *)
(***************************************************************************)
MaxStream == 7        \* longest IJC stream
MaxAidLen == 2        \* longest package AID in a Header input
MaxTrail == 2         \* most bytes following the package sub-record
MaxApplets == 2       \* largest applet count in an Applet input
MaxIndex == 3         \* largest index passed to get_applet_aid, and minus the smallest

\* Byte values IJC streams are built from: the tags on both sides of each end of
\* 1..12, which are also the sizes 0 and 1 and sizes no explored stream can hold.
StreamBytes == {0, 1, 12, 13}

\* Path prefixes passed as p ("foo" is the default).
Prefixes == {"foo", "x/y"}

(***************************************************************************)
(* Python built-ins used by the code.                                      *)
(***************************************************************************)
None == <<>>
Some(v) == <<v>>

\* Truth value of an attribute: None and b'' are both false.
Truthy(v) == v # None /\ v[1] # <<>>

NoExc == [type |-> "none", msg |-> ""]
Raise(t, m) == [type |-> t, msg |-> m]

\* The __component_* attributes.
Attrs == {"header", "directory", "applet", "import", "constantPool", "class", "method",
          "staticField", "referenceLocation", "export", "descriptor", "debug"}

\* The class attributes: every component is None until an instance sets it.
ClassAttrs == [a \in Attrs |-> None]

\* A local that no parse() has been assigned to yet.
NotParsed == [ok |-> FALSE, exc |-> NoExc]

\* The outcome of an accessor call, before any call.
NoRet == [op |-> "none", arg |-> 0, exc |-> NoExc, type |-> "none", val |-> ""]

Min(x, y) == IF x < y THEN x ELSE y

\* s[lo:hi] for 0 <= lo, 0 <= hi: both ends are clamped to len(s).
PySlice(s, lo, hi) == SubSeq(s, Min(lo, Len(s)) + 1, Min(hi, Len(s)))

\* s[lo:]
PySliceFrom(s, lo) == SubSeq(s, Min(lo, Len(s)) + 1, Len(s))

\* list[k]: whether the subscript is accepted (otherwise IndexError) ...
PyIndexOk(n, k) == -n <= k /\ k < n

\* ... and the 1-based position it denotes; a negative k counts from the end.
PyIndexPos(n, k) == IF k >= 0 THEN k + 1 ELSE n + k + 1

\* struct.unpack('!BH', s), defined for len(s) = 3: an unsigned byte and a
\* big-endian unsigned 16-bit integer.
UnpackBH(s) == [tag |-> s[1], size |-> s[2] * 256 + s[3]]

(***************************************************************************)
(* ijc_to_cap                                                              *)
(***************************************************************************)
TAGS == <<"Header", "Directory", "Applet", "Import", "ConstantPool", "Class", "Method",
          "StaticField", "RefLocation", "Export", "Descriptor", "Debug">>

\* IjcUnit had the slice started after the record header: b[3:3+size].
IjcUnitPayloadOnly(s, size) == PySlice(s, 3, 3 + size)

\* The bytes kept by one iteration: b[0:3+size].
IjcUnit(s, size) == PySlice(s, 0, 3 + size)

\* IjcRest had the cursor advanced by the payload alone: b[size:].
IjcRestPayloadOnly(s, size) == PySliceFrom(s, size)

\* The bytes left by one iteration: b[3+size:].
IjcRest(s, size) == PySliceFrom(s, 3 + size)

\* The entry name of one iteration: p+"/javacard/"+TAGS[tag-1]+".cap".
IjcName(prefix, tag) == prefix \o "/javacard/" \o TAGS[PyIndexPos(Len(TAGS), tag - 1)] \o ".cap"

\* b = in_file.read()
IjcRead ==
    /\ ijc_pc = "read"
    /\ b' = in_file
    /\ ijc_pc' = "loop"
    /\ UNCHANGED <<in_file, p, out_zip, ijc_exc, capVars>>

\* One iteration of the while loop, lines 39-41.
IjcIter ==
    /\ ijc_pc = "loop"
    /\ Len(b) > 0
    /\ IF Len(PySlice(b, 0, 3)) # 3
       THEN \* struct.unpack requires a buffer of 3 bytes
            /\ ijc_exc' = Raise("struct.error", "unpack requires a buffer of 3 bytes")
            /\ ijc_pc' = "raised"
            /\ UNCHANGED <<b, out_zip>>
       ELSE LET hdr == UnpackBH(PySlice(b, 0, 3)) IN
            IF ~PyIndexOk(Len(TAGS), hdr.tag - 1)
            THEN /\ ijc_exc' = Raise("IndexError", "list index out of range")
                 /\ ijc_pc' = "raised"
                 /\ UNCHANGED <<b, out_zip>>
            ELSE /\ out_zip' = Append(out_zip, [name |-> IjcName(p, hdr.tag),
                                                data |-> IjcUnit(b, hdr.size)])
                 /\ b' = IjcRest(b, hdr.size)
                 /\ UNCHANGED <<ijc_pc, ijc_exc>>
    /\ UNCHANGED <<in_file, p, capVars>>

\* The loop condition len(b) is false: the function returns.
IjcReturn ==
    /\ ijc_pc = "loop"
    /\ Len(b) = 0
    /\ ijc_pc' = "done"
    /\ UNCHANGED <<in_file, p, b, out_zip, ijc_exc, capVars>>

ByteSeqs(vals, n) == UNION {[1..k -> vals] : k \in 0..n}

\* The CapFile variables of a specification about ijc_to_cap alone.
CapIdle ==
    /\ archive = <<>>
    /\ pc = "start"
    /\ i = 0
    /\ slots = ClassAttrs
    /\ exc = NoExc
    /\ ret = NoRet
    /\ header = NotParsed
    /\ applet = NotParsed

InitIjc ==
    /\ in_file \in ByteSeqs(StreamBytes, MaxStream)
    /\ p \in Prefixes
    /\ b = <<>>
    /\ out_zip = <<>>
    /\ ijc_pc = "read"
    /\ ijc_exc = NoExc
    /\ CapIdle

NextIjc == IjcRead \/ IjcIter \/ IjcReturn

SpecIjc == InitIjc /\ [][NextIjc]_vars

\* The function runs to its end once called: no step of it waits on anything.
FairSpecIjc == SpecIjc /\ WF_vars(NextIjc)

(***************************************************************************)
(* str.lower, str.endswith, b2h                                            *)
(***************************************************************************)
UpperCase == "ABCDEFGHIJKLMNOPQRSTUVWXYZ"
LowerCase == "abcdefghijklmnopqrstuvwxyz"

\* The upper-case letters, and the lower-case letter of each.
UpperSet == {SubSeq(UpperCase, k, k) : k \in 1..Len(UpperCase)}
LowerOf == [c \in UpperSet |->
               LET k == CHOOSE k \in 1..Len(UpperCase) : SubSeq(UpperCase, k, k) = c
               IN SubSeq(LowerCase, k, k)]

\* c.lower() for a one-character string c.
LowerChar(c) == IF c \in UpperSet THEN LowerOf[c] ELSE c

\* s.lower()
RECURSIVE Lower(_)
Lower(s) == IF Len(s) = 0 THEN "" ELSE LowerChar(SubSeq(s, 1, 1)) \o Lower(SubSeq(s, 2, Len(s)))

\* s.endswith(suffix)
EndsWith(s, suffix) ==
    /\ Len(s) >= Len(suffix)
    /\ SubSeq(s, Len(s) - Len(suffix) + 1, Len(s)) = suffix

HexDigits == "0123456789abcdef"

\* '%02x' % x
Hex2(x) == SubSeq(HexDigits, (x \div 16) + 1, (x \div 16) + 1) \o SubSeq(HexDigits, (x % 16) + 1, (x % 16) + 1)

\* osmocom.utils.b2h: bytes to a lower-case hex string, two digits per byte.
RECURSIVE b2h(_)
b2h(bs) == IF bs = <<>> THEN "" ELSE Hex2(Head(bs)) \o b2h(Tail(bs))

(***************************************************************************)
(* CapFile.__init__                                                        *)
(***************************************************************************)
\* The if/elif chain of lines 86-109, in its order: suffix tested, attribute set.
Chain == << <<"header.cap", "header">>,
            <<"directory.cap", "directory">>,
            <<"applet.cap", "applet">>,
            <<"import.cap", "import">>,
            <<"constantpool.cap", "constantPool">>,
            <<"class.cap", "class">>,
            <<"method.cap", "method">>,
            <<"staticfield.cap", "staticField">>,
            <<"reflocation.cap", "referenceLocation">>,
            <<"export.cap", "export">>,
            <<"descriptor.cap", "descriptor">>,
            <<"debug.cap", "debug">> >>

\* BranchTaken had the test been `suffix in filename.lower()`.
BranchTakenAnywhere(lowered, k) ==
    \E j \in 1..(Len(lowered) - Len(Chain[k][1]) + 1) :
        SubSeq(lowered, j, j + Len(Chain[k][1]) - 1) = Chain[k][1]

\* The test of one branch on the lower-cased name: filename.lower().endswith(suffix).
BranchTaken(lowered, k) == EndsWith(lowered, Chain[k][1])

\* The branch of the chain a file name takes: the first whose test holds, 0 if none.
Branch(filename) ==
    LET lowered == Lower(filename)
        taken == {k \in 1..Len(Chain) : BranchTaken(lowered, k)}
    IN IF taken = {} THEN 0 ELSE CHOOSE k \in taken : \A j \in taken : k <= j

\* cap.namelist()
NameList(zip) == [k \in 1..Len(zip) |-> zip[k].name]

\* cap.read(filename): of several entries with one name, zipfile reads the last.
ZipRead(zip, filename) ==
    LET last == CHOOSE k \in 1..Len(zip) :
                    /\ zip[k].name = filename
                    /\ \A j \in (k + 1)..Len(zip) : zip[j].name # filename
    IN zip[last].data

\* The mandatory checks of lines 113-130, in their order: attribute, name in the message.
Mandatory == << <<"header", "COMPONENT_Header">>,
                <<"directory", "COMPONENT_Directory">>,
                <<"import", "COMPONENT_Import">>,
                <<"constantPool", "COMPONENT_ConstantPool">>,
                <<"class", "COMPONENT_Class">>,
                <<"method", "COMPONENT_Method">>,
                <<"staticField", "COMPONENT_StaticField">>,
                <<"referenceLocation", "COMPONENT_ReferenceLocation">>,
                <<"descriptor", "COMPONENT_Descriptor">> >>

\* IsMissing had the test been `not self.__component_x`.
IsMissingIfFalsy(sl, k) == ~Truthy(sl[Mandatory[k][1]])

\* The test of one mandatory check: self.__component_x is None.
IsMissing(sl, k) == sl[Mandatory[k][1]] = None

\* The first mandatory check that raises, 0 if none does.
FirstMissing(sl) ==
    IF \E k \in 1..Len(Mandatory) : IsMissing(sl, k)
    THEN CHOOSE k \in 1..Len(Mandatory) :
            /\ IsMissing(sl, k)
            /\ \A j \in 1..(k - 1) : ~IsMissing(sl, j)
    ELSE 0

\* cap = zipfile.ZipFile(filename); cap_namelist = cap.namelist()
CapOpen ==
    /\ pc = "start"
    /\ pc' = "loop"
    /\ i' = 0
    /\ slots' = ClassAttrs
    /\ UNCHANGED <<archive, exc, ret, locals, ijcVars>>

\* The attributes after the body of the for loop ran on entry n of the namelist.
ClassifyEntry(sl, zip, n) ==
    LET filename == NameList(zip)[n]
        k == Branch(filename)
    IN IF k = 0 THEN sl ELSE [sl EXCEPT ![Chain[k][2]] = Some(ZipRead(zip, filename))]

\* One iteration of the for loop, lines 85-109.
CapClassify ==
    /\ pc = "loop"
    /\ i < Len(archive)
    /\ slots' = ClassifyEntry(slots, archive, i + 1)
    /\ i' = i + 1
    /\ UNCHANGED <<archive, pc, exc, ret, locals, ijcVars>>

\* The loop is over: the mandatory checks, lines 113-130.
CapCheck ==
    /\ pc = "loop"
    /\ i = Len(archive)
    /\ LET k == FirstMissing(slots) IN
       IF k # 0
       THEN /\ exc' = Raise("ValueError", "invalid cap file, " \o Mandatory[k][2] \o " missing!")
            /\ pc' = "raised"
       ELSE /\ exc' = exc
            /\ pc' = "constructed"
    /\ UNCHANGED <<archive, i, slots, ret, locals, ijcVars>>

(***************************************************************************)
(* CapFile.get_loadfile                                                    *)
(***************************************************************************)
\* LoadFile had the components been added in the order of their tags.
LoadFileTagOrder(sl) ==
    LET l1 == sl["header"][1]
        l2 == l1 \o sl["directory"][1]
        l3 == IF Truthy(sl["applet"]) THEN l2 \o sl["applet"][1] ELSE l2
        l4 == l3 \o sl["import"][1]
        l5 == l4 \o sl["constantPool"][1]
        l6 == l5 \o sl["class"][1]
        l7 == l6 \o sl["method"][1]
        l8 == l7 \o sl["staticField"][1]
        l9 == l8 \o sl["referenceLocation"][1]
        l10 == IF Truthy(sl["export"]) THEN l9 \o sl["export"][1] ELSE l9
        l11 == IF Truthy(sl["descriptor"]) THEN l10 \o sl["descriptor"][1] ELSE l10
    IN l11

\* The bytes of lines 136-149.
LoadFile(sl) ==
    LET l1 == sl["header"][1]
        l2 == l1 \o sl["directory"][1]
        l3 == l2 \o sl["import"][1]
        l4 == IF Truthy(sl["applet"]) THEN l3 \o sl["applet"][1] ELSE l3
        l5 == l4 \o sl["class"][1]
        l6 == l5 \o sl["method"][1]
        l7 == l6 \o sl["staticField"][1]
        l8 == IF Truthy(sl["export"]) THEN l7 \o sl["export"][1] ELSE l7
        l9 == l8 \o sl["constantPool"][1]
        l10 == l9 \o sl["referenceLocation"][1]
        l11 == IF Truthy(sl["descriptor"]) THEN l10 \o sl["descriptor"][1] ELSE l10
    IN l11

GetLoadfile ==
    /\ pc = "constructed"
    /\ ret' = [op |-> "get_loadfile", arg |-> 0, exc |-> NoExc,
               type |-> "str", val |-> b2h(LoadFile(slots))]
    /\ UNCHANGED <<archive, pc, i, slots, exc, locals, ijcVars>>

\* The ijc_to_cap variables of a specification about CapFile alone.
IjcIdle ==
    /\ in_file = <<>>
    /\ p = "foo"
    /\ b = <<>>
    /\ out_zip = <<>>
    /\ ijc_pc = "read"
    /\ ijc_exc = NoExc

\* The entries archives are made of: the twelve components as a converter names
\* them, each with one distinguishing body byte; a Descriptor entry in upper case
\* and empty; and an entry that is no component though a component's file name
\* occurs in its name.
ComponentEntry(k) == [name |-> "FOO/javacard/" \o TAGS[k] \o ".cap", data |-> <<k, 0, 1, 160 + k>>]

Candidates ==
    << [name |-> "META-INF/Header.cap.MF", data |-> <<77, 70>>] >>
    \o [k \in 1..Len(TAGS) |-> ComponentEntry(k)]
    \o << [name |-> "PKG/JAVACARD/DESCRIPTOR.CAP", data |-> <<>>] >>

\* The entries of a sequence at the positions of a set, in their order.
RECURSIVE Select(_, _)
Select(seq, keep) ==
    IF seq = <<>> THEN <<>>
    ELSE LET front == Select(SubSeq(seq, 1, Len(seq) - 1), keep)
         IN IF Len(seq) \in keep THEN Append(front, seq[Len(seq)]) ELSE front

InitCap ==
    /\ archive \in {Select(Candidates, keep) : keep \in SUBSET (1..Len(Candidates))}
    /\ pc = "start"
    /\ i = 0
    /\ slots = ClassAttrs
    /\ exc = NoExc
    /\ ret = NoRet
    /\ header = NotParsed
    /\ applet = NotParsed
    /\ IjcIdle

NextCap == CapOpen \/ CapClassify \/ CapCheck \/ GetLoadfile

SpecCap == InitCap /\ [][NextCap]_vars

(***************************************************************************)
(* The construct declarations: Int8ub, Int16ub, Int32ub, LV, Struct,       *)
(* Array, Optional.  A parse result is a record with ok (whether parse()    *)
(* returned), exc (the exception otherwise), the fields, and next (the       *)
(* number of bytes consumed).  A 32-bit value is held as its four base-256   *)
(* digits, most significant first.                                         *)
(***************************************************************************)
StreamError == Raise("StreamError", "stream read less than specified amount")
ParseFailed == [ok |-> FALSE, exc |-> StreamError]

\* Int16ub at offset pos, whose two bytes are there.
U16(s, pos) == s[pos + 1] * 256 + s[pos + 2]

\* Int32ub at offset pos, whose four bytes are there.
U32(s, pos) == SubSeq(s, pos + 1, pos + 4)

\* LV = Prefixed(Int8ub, HexAdapter(GreedyBytes)) at offset pos: a length byte and
\* that many bytes, decoded to their hex string.
ParseLV(s, pos) ==
    IF pos + 1 > Len(s) THEN ParseFailed
    ELSE LET n == s[pos + 1] IN
         IF pos + 1 + n > Len(s) THEN ParseFailed
         ELSE [ok |-> TRUE, exc |-> NoExc, val |-> b2h(SubSeq(s, pos + 2, pos + 1 + n)),
               next |-> pos + 1 + n]

\* COptional(LV) at offset pos: the LV if it parses, otherwise None and nothing consumed.
ParseOptionalLV(s, pos) ==
    LET lv == ParseLV(s, pos) IN
    IF lv.ok THEN [val |-> Some(lv.val), next |-> lv.next]
    ELSE [val |-> None, next |-> pos]

\* __header_component_compact.parse(s), lines 61-70.
ParseHeader(s) ==
    IF Len(s) < 12 THEN ParseFailed
    ELSE LET aid == ParseLV(s, 12) IN
         IF ~aid.ok THEN ParseFailed
         ELSE LET name == ParseOptionalLV(s, aid.next) IN
              [ok |-> TRUE, exc |-> NoExc,
               tag |-> s[1], size |-> U16(s, 1), magic |-> U32(s, 3),
               minor_version |-> s[8], major_version |-> s[9], flags |-> s[10],
               package |-> [minor_version |-> s[11], major_version |-> s[12], AID |-> aid.val],
               package_name |-> name.val,
               next |-> name.next]

\* Array(this.count, Struct('AID'/LV, 'install_method_offset'/Int16ub)) at offset pos.
RECURSIVE ParseApplets(_, _, _)
ParseApplets(s, pos, count) ==
    IF count = 0 THEN [ok |-> TRUE, exc |-> NoExc, val |-> <<>>, next |-> pos]
    ELSE LET aid == ParseLV(s, pos) IN
         IF ~aid.ok THEN ParseFailed
         ELSE IF aid.next + 2 > Len(s) THEN ParseFailed
         ELSE LET rest == ParseApplets(s, aid.next + 2, count - 1) IN
              IF ~rest.ok THEN ParseFailed
              ELSE [ok |-> TRUE, exc |-> NoExc,
                    val |-> <<[AID |-> aid.val, install_method_offset |-> U16(s, aid.next)]>>
                            \o rest.val,
                    next |-> rest.next]

\* __applet_component_compact.parse(s), lines 73-78.
ParseApplet(s) ==
    IF Len(s) < 4 THEN ParseFailed
    ELSE LET arr == ParseApplets(s, 4, s[4]) IN
         IF ~arr.ok THEN ParseFailed
         ELSE [ok |-> TRUE, exc |-> NoExc, tag |-> s[1], size |-> U16(s, 1), count |-> s[4],
               applets |-> arr.val, next |-> arr.next]

(***************************************************************************)
(* String formatting                                                       *)
(***************************************************************************)
UpperHexDigits == "0123456789ABCDEF"
DecDigits == "0123456789"

\* '%02X' % x
UpperHex2(x) == SubSeq(UpperHexDigits, (x \div 16) + 1, (x \div 16) + 1)
                    \o SubSeq(UpperHexDigits, (x % 16) + 1, (x % 16) + 1)

\* '%08X' % v for a 32-bit value.
UpperHex8(v) == UpperHex2(v[1]) \o UpperHex2(v[2]) \o UpperHex2(v[3]) \o UpperHex2(v[4])

\* '%u' % n for n >= 0.
RECURSIVE Dec(_)
Dec(n) == IF n < 10 THEN SubSeq(DecDigits, n + 1, n + 1)
          ELSE Dec(n \div 10) \o SubSeq(DecDigits, (n % 10) + 1, (n % 10) + 1)

(***************************************************************************)
(* CapFile.get_loadfile_aid                                                *)
(***************************************************************************)
\* 0xDECAFFED
MAGIC == <<222, 202, 255, 237>>
Zero32 == <<0, 0, 0, 0>>

\* header['magic'] or 0
MagicOr0(magic) == IF magic = Zero32 THEN Zero32 ELSE magic

\* MagicOk had only the low 16 bits been compared.
MagicOkLow16(magic) == SubSeq(magic, 3, 4) = SubSeq(MAGIC, 3, 4)

\* The test of line 156 passes: not (magic != 0xDECAFFED).
MagicOk(magic) == magic = MAGIC

GetLoadfileAid ==
    /\ pc = "constructed"
    /\ LET h == ParseHeader(slots["header"][1]) IN
       /\ header' = h
       /\ ret' = IF ~h.ok
                 THEN [op |-> "get_loadfile_aid", arg |-> 0, exc |-> h.exc,
                       type |-> "none", val |-> ""]
                 ELSE IF ~MagicOk(MagicOr0(h.magic))
                 THEN [op |-> "get_loadfile_aid", arg |-> 0,
                       exc |-> Raise("ValueError",
                                     "invalid cap file, COMPONENT_Header lacks magic number (0x"
                                         \o UpperHex8(MagicOr0(h.magic)) \o "!=0xDECAFFED)!"),
                       type |-> "none", val |-> ""]
                 ELSE [op |-> "get_loadfile_aid", arg |-> 0, exc |-> NoExc,
                       type |-> "str", val |-> h.package.AID]
    /\ UNCHANGED <<archive, pc, i, slots, exc, applet, ijcVars>>

(***************************************************************************)
(* CapFile.get_applet_aid                                                  *)
(***************************************************************************)
\* The test of line 170: index > applet['count'].
IndexRejected(index, count) == index > count

GetAppletAid(index) ==
    /\ pc = "constructed"
    /\ IF slots["applet"] = None
       THEN /\ ret' = [op |-> "get_applet_aid", arg |-> index,
                       exc |-> Raise("ValueError", "can't get the AID, this cap file lacks the optional COMPONENT_Applet component!"),
                       type |-> "none", val |-> ""]
            /\ applet' = applet
       ELSE LET a == ParseApplet(slots["applet"][1]) IN
            /\ applet' = a
            /\ ret' = IF ~a.ok
                      THEN [op |-> "get_applet_aid", arg |-> index, exc |-> a.exc,
                            type |-> "none", val |-> ""]
                      ELSE IF IndexRejected(index, a.count)
                      THEN [op |-> "get_applet_aid", arg |-> index,
                            exc |-> Raise("ValueError",
                                          "can't get the AID for applet with index=" \o Dec(index)
                                              \o ", this .cap file only has " \o Dec(a.count)
                                              \o " applets!"),
                            type |-> "none", val |-> ""]
                      ELSE IF ~PyIndexOk(Len(a.applets), index)
                      THEN [op |-> "get_applet_aid", arg |-> index,
                            exc |-> Raise("IndexError", "list index out of range"),
                            type |-> "none", val |-> ""]
                      ELSE [op |-> "get_applet_aid", arg |-> index, exc |-> NoExc, type |-> "str",
                            val |-> a.applets[PyIndexPos(Len(a.applets), index)].AID]
    /\ UNCHANGED <<archive, pc, i, slots, exc, header, ijcVars>>

(***************************************************************************)
(* Constructed objects whose Header or Applet component varies             *)
(***************************************************************************)
\* The attributes after the for loop ran on the first n entries.
RECURSIVE Classified(_, _)
Classified(zip, n) == IF n = 0 THEN ClassAttrs ELSE ClassifyEntry(Classified(zip, n - 1), zip, n)

\* The archive of the nine mandatory components, with this Header component, and
\* with this Applet component unless it is None.
ArchiveWith(hdr, app) ==
    LET body(k) == IF k = 1 THEN hdr ELSE IF k = 3 THEN app[1] ELSE ComponentEntry(k).data
        tags == IF app = None THEN <<1, 2, 4, 5, 6, 7, 8, 9, 11>>
                ELSE <<1, 2, 3, 4, 5, 6, 7, 8, 9, 11>>
    IN [k \in 1..Len(tags) |-> [name |-> ComponentEntry(tags[k]).name, data |-> body(tags[k])]]

\* The state in which the constructor returned an object for this archive.
ConstructedFrom(zip) ==
    /\ archive = zip
    /\ pc = "constructed"
    /\ i = Len(zip)
    /\ slots = Classified(zip, Len(zip))
    /\ exc = NoExc
    /\ ret = NoRet
    /\ header = NotParsed
    /\ applet = NotParsed
    /\ IjcIdle

\* s[:k] for every k in 0..len(s)
Truncations(s) == {SubSeq(s, 1, k) : k \in 0..Len(s)}

\* Header components: CAP format 2.2, flags ACC_APPLET, package version 1.0, a magic
\* number, an AID, bytes after the package; and every truncation of one.
MagicInputs == {MAGIC, Zero32, <<222, 202, 255, 236>>, <<0, 0, 255, 237>>, <<237, 255, 202, 222>>}
AidBytes == {160, 1}
TrailBytes == {0, 1, 2}

HeaderBytes(magic, aid, trail) ==
    LET body == magic \o <<2, 2, 4>> \o <<0, 1>> \o <<Len(aid)>> \o aid \o trail
    IN <<1, 0, Len(body)>> \o body

HeaderInputs ==
    UNION {Truncations(HeaderBytes(m, a, t)) :
              m \in MagicInputs, a \in ByteSeqs(AidBytes, MaxAidLen), t \in ByteSeqs(TrailBytes, MaxTrail)}

ValidHeader == HeaderBytes(MAGIC, <<160, 1>>, <<>>)

InitHdr == \E h \in HeaderInputs : ConstructedFrom(ArchiveWith(h, None))

NextHdr == GetLoadfileAid

SpecHdr == InitHdr /\ [][NextHdr]_vars

\* Applet components: count applets, applet j with an AID of one or two bytes that
\* names j and the install method offset j; and every truncation of one.
AppletAids(j) == {<<176 + j>>, <<160, 176 + j>>}

RECURSIVE AppletBodies(_)
AppletBodies(count) ==
    IF count = 0 THEN {<<>>}
    ELSE {front \o <<Len(aid)>> \o aid \o <<0, count>> :
             front \in AppletBodies(count - 1), aid \in AppletAids(count)}

AppletBytes(count, body) == <<3, 0, 1 + Len(body), count>> \o body

AppletInputs ==
    UNION {UNION {Truncations(AppletBytes(count, body)) : body \in AppletBodies(count)} :
              count \in 0..MaxApplets}

InitApplet ==
    \E a \in {None} \cup {Some(x) : x \in AppletInputs} : ConstructedFrom(ArchiveWith(ValidHeader, a))

NextApplet == \E index \in (0 - MaxIndex)..MaxIndex : GetAppletAid(index)

SpecApplet == InitApplet /\ [][NextApplet]_vars

(***************************************************************************)
(* Properties of ijc_to_cap                                                *)
(***************************************************************************)
\* A stream read as a concatenation of well-formed records (tag in 1..12, 16-bit
\* big-endian size, exactly size payload bytes): whether it is one, and its records.
RECURSIVE WfRecords(_)
WfRecords(s) ==
    IF s = <<>> THEN [ok |-> TRUE, recs |-> <<>>]
    ELSE IF Len(s) < 3 \/ s[1] \notin 1..12 \/ 3 + s[2] * 256 + s[3] > Len(s)
    THEN [ok |-> FALSE, recs |-> <<>>]
    ELSE LET n == 3 + s[2] * 256 + s[3]
             rest == WfRecords(SubSeq(s, n + 1, Len(s)))
         IN [ok |-> rest.ok, recs |-> <<SubSeq(s, 1, n)>> \o rest.recs]

IsWellFormed(s) == WfRecords(s).ok

RECURSIVE Flatten(_)
Flatten(ss) == IF ss = <<>> THEN <<>> ELSE Head(ss) \o Flatten(Tail(ss))

\* The size a unit declares in its own bytes 1..2 (0-based), big-endian.
DeclaredSize(u) == u[2] * 256 + u[3]

\* The position of the loop reads a record header with this tag and size.
IjcAt == ijc_pc = "loop" /\ Len(b) >= 3

\* C4: whenever the tag byte at the current position is outside 1..12 the split
\* fails and writes no entry for that record (so a tag 0 record is never emitted
\* under one of the twelve names).
C4_UnknownTagFails ==
    [][(IjcAt /\ b[1] \notin 1..12) => (ijc_pc' = "raised" /\ out_zip' = out_zip)]_vars

\* C5: whenever the record at the current position, with a tag in 1..12, declares a
\* size such that 3 + size exceeds the bytes remaining, the split fails instead of
\* emitting a unit.
C5_TruncatedFails ==
    [][(IjcAt /\ b[1] \in 1..12 /\ 3 + DeclaredSize(b) > Len(b))
          => (ijc_pc' = "raised" /\ out_zip' = out_zip)]_vars

\* C6: for a stream of N well-formed records the splitter returns having written
\* exactly N entries, the k-th holding the k-th record under the name
\* prefix/javacard/<TAGS[tag-1]>.cap, and the entries concatenated in emission order
\* give back the stream.
C6_RoundTrip ==
    IsWellFormed(in_file) =>
        /\ ijc_pc # "raised"
        /\ ijc_pc = "done" =>
            LET recs == WfRecords(in_file).recs IN
            /\ Len(out_zip) = Len(recs)
            /\ \A k \in 1..Len(recs) :
                  /\ out_zip[k].data = recs[k]
                  /\ out_zip[k].name = p \o "/javacard/" \o TAGS[recs[k][1]] \o ".cap"
            /\ Flatten([k \in 1..Len(out_zip) |-> out_zip[k].data]) = in_file

\* Two records were split, one of them with a payload.
C6_Witness ==
    /\ ijc_pc = "done"
    /\ IsWellFormed(in_file)
    /\ Len(out_zip) = 2
    /\ \E k \in 1..2 : Len(out_zip[k].data) > 3

\* C10: every iteration raises or shortens the remaining stream by at least 3
\* bytes, the function ends on every stream, and the stream 01 00 00 ends with
\* exactly one 3-byte entry, named Header.
C10_Terminates ==
    /\ [][IjcIter => (ijc_pc' = "raised" \/ Len(b') + 3 <= Len(b))]_vars
    /\ <>(ijc_pc \in {"done", "raised"})
    /\ []((in_file = <<1, 0, 0>> /\ ijc_pc = "done") =>
             out_zip = <<[name |-> p \o "/javacard/Header.cap", data |-> <<1, 0, 0>>]>>)

\* The stream 01 00 00 was split to its end.
C10_Witness ==
    /\ in_file = <<1, 0, 0>>
    /\ ijc_pc = "done"
    /\ Len(out_zip) = 1

(***************************************************************************)
(* Properties of CapFile.__init__ and get_loadfile                         *)
(***************************************************************************)
\* The slot of each of the twelve components, by tag.
SlotOf == <<"header", "directory", "applet", "import", "constantPool", "class", "method",
            "staticField", "referenceLocation", "export", "descriptor", "debug">>

\* The tags of the nine mandatory components.
MandatoryTags == {1, 2, 4, 5, 6, 7, 8, 9, 11}

\* The component's name as the missing-component error gives it.
ErrorName(c) == IF TAGS[c] = "RefLocation" THEN "ReferenceLocation" ELSE TAGS[c]

\* The suffix of each component: its name in lower case, then .cap.
ComponentSuffix == [c \in 1..Len(TAGS) |-> Lower(TAGS[c]) \o ".cap"]

\* The components an entry name matches: case-insensitively, it ends with <name>.cap.
MatchedBy(name) ==
    LET lowered == Lower(name) IN {c \in 1..Len(TAGS) : EndsWith(lowered, ComponentSuffix[c])}

\* The components some entry of the archive matches.
MatchedComponents == UNION {MatchedBy(archive[k].name) : k \in 1..Len(archive)}

\* C1: construction succeeds exactly when each of the nine mandatory components is
\* matched by some entry; with exactly one of them absent it fails with the
\* missing-component error naming that one; and a failed construction leaves no
\* object to call.
C1_MandatoryComponents ==
    pc \in {"constructed", "raised"} =>
        LET absent == MandatoryTags \ MatchedComponents IN
        /\ pc = "constructed" <=> absent = {}
        /\ pc = "raised" => ret = NoRet
        /\ \A c \in MandatoryTags :
              absent = {c} =>
                  exc = Raise("ValueError", "invalid cap file, COMPONENT_" \o ErrorName(c) \o " missing!")

\* Construction failed on an archive that lacks RefLocation alone among the
\* mandatory components, and holds Applet and Debug but no Export.
C1_Witness ==
    /\ pc = "raised"
    /\ (1..Len(TAGS)) \ MatchedComponents = {9, 10}

\* The order of the loadfile.
LoadOrder == <<"header", "directory", "import", "applet", "class", "method", "staticField",
               "export", "constantPool", "referenceLocation", "descriptor">>

\* The bytes of a slot, none for an absent component.
SlotBytes(a) == IF slots[a] = None THEN <<>> ELSE slots[a][1]

\* The stored components concatenated in the order of the loadfile.
ExpectedLoadFile == Flatten([k \in 1..Len(LoadOrder) |-> SlotBytes(LoadOrder[k])])

\* sub occurs in s.
Occurs(sub, s) == \E k \in 1..(Len(s) - Len(sub) + 1) : SubSeq(s, k, k + Len(sub) - 1) = sub

\* C2 as stated: get_loadfile() returns the bytes of the concatenation.
C2_ReturnsBytes ==
    ret.op = "get_loadfile" => (ret.type = "bytes" /\ ret.val = ExpectedLoadFile)

\* C2 as amended: get_loadfile() returns the lower-case hex string, two digits per
\* byte, of the stored components concatenated in the order Header, Directory,
\* Import, Applet (if present), Class, Method, StaticField, Export (if present),
\* ConstantPool, ReferenceLocation, Descriptor, and the Debug component does not
\* occur in it.
C2_LoadFileOrder ==
    ret.op = "get_loadfile" =>
        /\ ret.exc = NoExc
        /\ ret.type = "str"
        /\ ret.val = b2h(ExpectedLoadFile)
        /\ Len(ret.val) = 2 * Len(ExpectedLoadFile)
        /\ slots["debug"] # None => ~Occurs(b2h(slots["debug"][1]), ret.val)

\* get_loadfile() returned for an archive with Applet and Debug but without Export.
C2_Witness ==
    /\ ret.op = "get_loadfile"
    /\ slots["applet"] # None
    /\ slots["debug"] # None
    /\ slots["export"] = None

\* The step that classifies the entry at position i + 1.
AtEntry == pc = "loop" /\ i < Len(archive)

\* C8: an entry whose lower-cased name ends with <componentname>.cap is stored in
\* that component's slot and changes no other slot; an entry that matches none of
\* the twelve changes no slot and raises nothing.
C8_Classification ==
    [][AtEntry =>
          LET e == archive[i + 1]
              hit == MatchedBy(e.name)
          IN /\ \A c \in hit :
                   /\ slots'[SlotOf[c]] = Some(e.data)
                   /\ \A a \in Attrs \ {SlotOf[c]} : slots'[a] = slots[a]
             /\ hit = {} => slots' = slots
             /\ pc' # "raised"
             /\ exc' = NoExc]_vars

\* The entries META-INF/Header.cap.MF, FOO/javacard/Header.cap and
\* PKG/JAVACARD/DESCRIPTOR.CAP have been classified.
C8_Witness ==
    /\ pc = "loop"
    /\ i = 3
    /\ archive[1].name = "META-INF/Header.cap.MF"
    /\ archive[2].name = "FOO/javacard/Header.cap"
    /\ archive[3].name = "PKG/JAVACARD/DESCRIPTOR.CAP"
    /\ slots["header"] = Some(archive[2].data)
    /\ slots["descriptor"] = Some(<<>>)

(***************************************************************************)
(* Properties of get_loadfile_aid and get_applet_aid                       *)
(***************************************************************************)
\* The Header component held by the object.
HeaderComponent == slots["header"][1]

\* The Header component holds its fixed fields and the whole package sub-record:
\* 12 bytes, the length byte of the AID and the AID.
PackageDecodes(h) == Len(h) >= 13 /\ Len(h) >= 13 + h[13]

\* The bytes that follow the package sub-record.
AfterPackage(h) == SubSeq(h, 14 + h[13], Len(h))

InvalidMagicText == "invalid cap file, COMPONENT_Header lacks magic number"
IndexRangeText == "can't get the AID for applet with index="

StartsWith(s, prefix) == Len(s) >= Len(prefix) /\ SubSeq(s, 1, Len(prefix)) = prefix

\* C7: for a Header that decodes, get_loadfile_aid() returns the package AID field
\* when the four magic bytes are DE CA FF ED, and otherwise fails with the
\* invalid-magic error and returns no AID.
C7_MagicChecked ==
    (ret.op = "get_loadfile_aid" /\ PackageDecodes(HeaderComponent)) =>
        LET h == HeaderComponent IN
        IF SubSeq(h, 4, 7) = <<222, 202, 255, 237>>
        THEN /\ ret.exc = NoExc
             /\ ret.val = b2h(SubSeq(h, 14, 13 + h[13]))
        ELSE /\ ret.exc.type = "ValueError"
             /\ StartsWith(ret.exc.msg, InvalidMagicText)
             /\ ret.type = "none"

\* get_loadfile_aid() was called on a Header whose magic is 0x0000FFED and whose
\* package AID is A0 01.
C7_Witness ==
    /\ ret.op = "get_loadfile_aid"
    /\ PackageDecodes(HeaderComponent)
    /\ SubSeq(HeaderComponent, 4, 7) = <<0, 0, 255, 237>>
    /\ HeaderComponent[13] = 2
    /\ SubSeq(HeaderComponent, 14, 15) = <<160, 1>>
    /\ ret.exc.type = "ValueError"

\* C9: once the package sub-record is decoded, package_name is present exactly when
\* bytes remain after it, and remaining bytes that do not form a whole LV make the
\* decode fail rather than yield an absent package_name.
C9_PackageNameLengthDriven ==
    (ret.op = "get_loadfile_aid" /\ PackageDecodes(HeaderComponent)) =>
        LET rest == AfterPackage(HeaderComponent) IN
        IF rest = <<>> THEN header.ok /\ header.package_name = None
        ELSE IF Len(rest) - 1 < rest[1] THEN ~header.ok /\ header.exc.type = "StreamError"
        ELSE header.ok /\ header.package_name # None

\* C3: with the Applet component present and decoded to count applets,
\* get_applet_aid(index) returns the AID of applet index when 0 <= index < count and
\* fails with the error reporting index and count for every other index.
C3_IndexChecked ==
    (ret.op = "get_applet_aid" /\ slots["applet"] # None /\ applet.ok) =>
        IF 0 <= ret.arg /\ ret.arg < applet.count
        THEN ret.exc = NoExc /\ ret.val = applet.applets[ret.arg + 1].AID
        ELSE ret.exc.type = "ValueError" /\ StartsWith(ret.exc.msg, IndexRangeText)

====
